---- MODULE Spec2Model ----
(***************************************************************************)
(* Rate-limit annotation processor of pkg/annotations/ingress              *)
(* (reqRateLimit.go): ReqRateLimitAnn.Process applied, one directive at a  *)
(* time, by processors that share one Map Store.                           *)
(*                                                                         *)
(* Texts the code parses are sequences of one-character strings, so that   *)
(* parsing, splitting and trimming are computed; texts the code only       *)
(* builds (table names, paths) are TLA+ strings.                           *)
(***************************************************************************)
EXTENDS Integers, Sequences, FiniteSets, TLC

(***************************************************************************)
(* Text helpers (package strings).                                         *)
(***************************************************************************)
RECURSIVE Str(_)
Str(s) == IF s = <<>> THEN "" ELSE Head(s) \o Str(Tail(s))

HasPrefix(s, pre) ==
    /\ Len(s) >= Len(pre)
    /\ SubSeq(s, 1, Len(pre)) = pre

HasSuffix(s, suf) ==
    /\ Len(s) >= Len(suf)
    /\ SubSeq(s, Len(s) - Len(suf) + 1, Len(s)) = suf

TrimSuffix(s, suf) ==
    IF HasSuffix(s, suf) THEN SubSeq(s, 1, Len(s) - Len(suf)) ELSE s

\* strings.Split(s, sep) for a one-character separator: always at least one field
RECURSIVE SplitFrom(_, _, _)
SplitFrom(s, sep, cur) ==
    IF s = <<>> THEN <<cur>>
    ELSE IF Head(s) = sep THEN <<cur>> \o SplitFrom(Tail(s), sep, <<>>)
    ELSE SplitFrom(Tail(s), sep, Append(cur, Head(s)))

Split(s, sep) == SplitFrom(s, sep, <<>>)

RECURSIVE TrimLeft(_)
TrimLeft(s) == IF s # <<>> /\ Head(s) = " " THEN TrimLeft(Tail(s)) ELSE s

RECURSIVE TrimRight(_)
TrimRight(s) ==
    IF s # <<>> /\ s[Len(s)] = " " THEN TrimRight(SubSeq(s, 1, Len(s) - 1)) ELSE s

TrimSpace(s) == TrimRight(TrimLeft(s))

(***************************************************************************)
(* Numbers (package strconv).                                              *)
(***************************************************************************)
DigitChars == <<"0", "1", "2", "3", "4", "5", "6", "7", "8", "9">>

IsDigit(c) == \E i \in 1..Len(DigitChars) : DigitChars[i] = c

DigitVal(c) == (CHOOSE i \in 1..Len(DigitChars) : DigitChars[i] = c) - 1

AllDigits(s) == s # <<>> /\ \A i \in 1..Len(s) : IsDigit(s[i])

RECURSIVE Decimal(_)
Decimal(s) ==
    IF s = <<>> THEN 0 ELSE 10 * Decimal(SubSeq(s, 1, Len(s) - 1)) + DigitVal(s[Len(s)])

\* strconv.ParseInt(s, 10, 64): optional sign, then digits; 0 with a syntax
\* error otherwise.  The texts of the model stay far below 2^63, so the
\* range error is out of reach.
StrconvParseInt(s) ==
    LET signed == s # <<>> /\ Head(s) \in {"+", "-"}
        digits == IF signed THEN Tail(s) ELSE s
    IN  IF ~AllDigits(digits) THEN [ok |-> FALSE, value |-> 0]
        ELSE [ok    |-> TRUE,
              value |-> IF signed /\ Head(s) = "-" THEN 0 - Decimal(digits)
                        ELSE Decimal(digits)]

(***************************************************************************)
(* Addresses (package net).  The texts of the model hold no ':' so the     *)
(* IPv6 forms are out of reach; IPv4 is four decimal fields 0..255 without *)
(* leading zeros, a CIDR block is an address, '/', and a prefix 0..32.     *)
(***************************************************************************)
IndexOf(s, c) ==
    IF \E i \in 1..Len(s) : s[i] = c
    THEN CHOOSE i \in 1..Len(s) : s[i] = c /\ \A j \in 1..(i - 1) : s[j] # c
    ELSE 0

IsIPv4Field(f) ==
    /\ AllDigits(f)
    /\ Len(f) <= 3
    /\ (Len(f) > 1 => Head(f) # "0")
    /\ Decimal(f) <= 255

\* net.ParseIP(address) # nil
ParseIP(address) ==
    LET fields == Split(address, ".")
    IN  /\ Len(fields) = 4
        /\ \A i \in 1..4 : IsIPv4Field(fields[i])

\* net.ParseCIDR(address) returns no error
ParseCIDR(address) ==
    LET i == IndexOf(address, "/")
        addr == SubSeq(address, 1, i - 1)
        mask == SubSeq(address, i + 1, Len(address))
    IN  /\ i > 0
        /\ ParseIP(addr)
        /\ AllDigits(mask)
        /\ Len(mask) <= 3
        /\ Decimal(mask) <= 32

(***************************************************************************)
(* pkg/utils: ParseInt, ParseTime, ParseSize, Hash.  A result is           *)
(* [ok, value]; ParseTime and ParseSize return a pointer, nil on error.    *)
(***************************************************************************)
Nil == <<>>

Ptr(v) == <<v>>

Deref(ptr) == ptr[1]

\* utils.ParseInt: the integer, 0 with an error
ParseInt(data) == StrconvParseInt(data)

Scaled(data, suffix, factor) ==
    LET r == StrconvParseInt(TrimSuffix(data, suffix))
    IN  IF r.ok THEN [ok |-> TRUE, value |-> Ptr(r.value * factor)]
        ELSE [ok |-> FALSE, value |-> Nil]

\* utils.ParseTime: a duration with a unit suffix, in milliseconds
ParseTime(data) ==
    CASE HasSuffix(data, <<"m", "s">>) -> Scaled(data, <<"m", "s">>, 1)
      [] HasSuffix(data, <<"s">>) -> Scaled(data, <<"s">>, 1000)
      [] HasSuffix(data, <<"m">>) -> Scaled(data, <<"m">>, 60 * 1000)
      [] HasSuffix(data, <<"h">>) -> Scaled(data, <<"h">>, 60 * 60 * 1000)
      [] OTHER -> Scaled(data, <<>>, 1)

\* utils.ParseSize: a size with a unit suffix, in bytes
ParseSize(data) ==
    CASE HasSuffix(data, <<"k">>) -> Scaled(data, <<"k">>, 1024)
      [] HasSuffix(data, <<"m">>) -> Scaled(data, <<"m">>, 1024 * 1024)
      [] OTHER -> Scaled(data, <<>>, 1)

\* The characters of the model's texts, for the hash
Alphabet ==
    DigitChars \o <<".", "/", ",", " ", "-", "+", "a", "b", "c", "d", "e", "f",
                    "g", "h", "i", "k", "l", "m", "n", "o", "p", "r", "s", "t",
                    "v", "w", "x">>

Code(c) == CHOOSE i \in 1..Len(Alphabet) : Alphabet[i] = c

\* utils.Hash: a stable digest of the bytes, as text.  A multiplicative fold
\* stands for the 128-bit digest; it depends on every byte and its position,
\* and gives the texts of the model different digests.
RECURSIVE HashFold(_, _)
HashFold(input, h) ==
    IF input = <<>> THEN h
    ELSE HashFold(Tail(input), (h * 31 + Code(Head(input))) % 65521)

Hash(input) == ToString(HashFold(input, 7))

(***************************************************************************)
(* pkg/haproxy/maps: the Map Store, a function from map name to its rows.  *)
(***************************************************************************)
MapDir == "/tmp/maps"

MapExists(m, name) == name \in DOMAIN m /\ Len(m[name]) > 0

MapAppend(m, name, row) ==
    IF row = <<>> THEN m
    ELSE IF name \in DOMAIN m THEN [m EXCEPT ![name] = Append(@, row)]
    ELSE (name :> <<row>>) @@ m

GetPath(name) == MapDir \o "/" \o name \o ".map"

(***************************************************************************)
(* pkg/annotations/common: GetValue, the value of the first annotation map *)
(* that holds the name, "" when none does.                                 *)
(***************************************************************************)
RECURSIVE GetValue(_, _)
GetValue(name, annotations) ==
    IF annotations = <<>> THEN <<>>
    ELSE IF name \in DOMAIN Head(annotations) THEN Head(annotations)[name]
    ELSE GetValue(name, Tail(annotations))

(***************************************************************************)
(* pkg/haproxy/rules: the policy fragments and the Rule List.              *)
(***************************************************************************)
\* &rules.ReqRateLimit{ReqsLimit: value}
NewLimit(value) ==
    [ReqsLimit |-> value, TableName |-> "", DenyStatusCode |-> 0, WhitelistMap |-> ""]

\* &rules.ReqTrack{TrackKey: "src"}
NewTrack ==
    [TrackKey |-> "src", TableName |-> "", TablePeriod |-> Nil, TableSize |-> Nil]

\* rules.List.Add: order-preserving append of a reference to the fragment
RulesAdd(list, kind, ref) == Append(list, [kind |-> kind, ref |-> ref])

(***************************************************************************)
(* The directives and the texts submitted for them.                        *)
(***************************************************************************)
KnownNames ==
    {"rate-limit-requests", "rate-limit-period", "rate-limit-size",
     "rate-limit-status-code", "rate-limit-whitelist"}

Names == KnownNames \cup {"rate-limit-burst"}

Requests1200 == <<"1", "2", "0", "0">>
Requests100 == <<"1", "0", "0">>
RequestsAbc == <<"a", "b", "c">>
Period10s == <<"1", "0", "s">>
Period1m == <<"1", "m">>
Period10x == <<"1", "0", "x">>
Size200k == <<"2", "0", "0", "k">>
SizeBig == <<"b", "i", "g">>
Status429 == <<"4", "2", "9">>
Status4x9 == <<"4", "x", "9">>
WhitelistTwo ==
    <<"1", "0", ".", "0", ".", "0", ".", "0", "/", "8", ",", " ",
      "1", "9", "2", ".", "1", "6", "8", ".", "1", ".", "1", "0", "0">>
\* two addresses, an entry that is no address, and an address after it
WhitelistMixed ==
    <<"1", ".", "1", ".", "1", ".", "1", ",", " ", "2", ".", "2", ".", "2", ".", "2",
      ",", "x", ",", "3", ".", "3", ".", "3", ".", "3">>
WhitelistBadCidr == <<"1", ".", "1", ".", "1", ".", "0", "/", "3", "3">>
WhitelistPattern ==
    <<"p", "a", "t", "t", "e", "r", "n", "s", "/",
      "w", "h", "i", "t", "e", "l", "i", "s", "t">>
Burst5 == <<"5">>

Values(name) ==
    CASE name = "rate-limit-requests" -> {Requests1200, Requests100, RequestsAbc}
      [] name = "rate-limit-period" -> {Period10s, Period1m, Period10x}
      [] name = "rate-limit-size" -> {Size200k, SizeBig}
      [] name = "rate-limit-status-code" -> {Status429, Status4x9}
      [] name = "rate-limit-whitelist" ->
            {WhitelistTwo, WhitelistMixed, WhitelistBadCidr, WhitelistPattern}
      [] OTHER -> {Burst5}

\* The annotation map of TestReqRateLimit_AllAnnotations
AllAnnotations ==
    [n \in KnownNames |->
        CASE n = "rate-limit-requests" -> Requests1200
          [] n = "rate-limit-period" -> Period10s
          [] n = "rate-limit-status-code" -> Status429
          [] n = "rate-limit-size" -> Size200k
          [] n = "rate-limit-whitelist" -> WhitelistTwo]

\* The annotation maps a call is given: none, one map that holds the name
\* (with a value, or with the empty value), or a map that does not hold it
\* followed by the map of the test.
AnnotationArgs(name) ==
    {<<>>, <<"unrelated" :> Burst5, AllAnnotations>>}
        \cup {<<name :> v>> : v \in Values(name) \cup {<<>>}}

\* Every call the model makes: a directive name and the maps passed with it
Calls ==
    UNION {{[name |-> n, annotations |-> a] : a \in AnnotationArgs(n)} : n \in Names}

(***************************************************************************)
(* What the code computes from a text alone, tabulated over the texts of   *)
(* the model so that it is evaluated once per text.                        *)
(***************************************************************************)
Texts == UNION {Values(n) : n \in Names}

PatternsPrefix == <<"p", "a", "t", "t", "e", "r", "n", "s", "/">>

\* mapName of an inline whitelist text
WhitelistMapName(input) == "ratelimit-whitelist-" \o Hash(input)

\* net.ParseIP(address) == nil and net.ParseCIDR(address) fails
IncorrectAddress(address) == ~ParseIP(address) /\ ~ParseCIDR(address)

Computed ==
    [input \in Texts |->
        [strconv |-> StrconvParseInt(input),
         int |-> ParseInt(input),
         time |-> ParseTime(input),
         size |-> ParseSize(input),
         patterns |-> HasPrefix(input, PatternsPrefix),
         path |-> Str(input),
         mapName |-> WhitelistMapName(input),
         addresses |-> [i \in 1..Len(Split(input, ",")) |->
                           TrimSpace(Split(input, ",")[i])]]]

Incorrect ==
    [address \in UNION {{Computed[input].addresses[i] :
                            i \in 1..Len(Computed[input].addresses)} :
                                input \in Values("rate-limit-whitelist")} |->
        IncorrectAddress(address)]

(***************************************************************************)
(* State.  limit and track are the pointers of each ReqRateLimit (0 is     *)
(* nil) into the fragments allocated so far; rules[p] is the Rule List the *)
(* processor was built with, maps the Map Store all processors share.      *)
(* ret is the last Process call and what it returned.  seen, pos and calls *)
(* record history: the inline whitelist texts that reached the map code,   *)
(* each with the name derived for it and the rows of its set after that    *)
(* first call; how far each processor has followed Script; and the number  *)
(* of calls made.  run is where each processor stands in a whitelist call  *)
(* that is taken step by step, one access to the Map Store at a time: idle *)
(* between calls, or in the loop over the addresses, about to handle entry *)
(* i of the text.  overlap records the sets that a processor started to    *)
(* fill while another one was filling them.  seen is kept by Process       *)
(* alone.                                                                  *)
(***************************************************************************)
VARIABLES limit, track, heapLimit, heapTrack, rules, maps, ret, seen, pos, calls,
          run, overlap

prog == <<limit, track, heapLimit, heapTrack, rules, maps>>

vars == <<limit, track, heapLimit, heapTrack, rules, maps, ret, seen, pos, calls,
          run, overlap>>

Procs == {"p1", "p2"}

\* Length of the longest sequence of Process calls explored
MaxCalls == 5

Off == 0 - 1

\* a processor that is in no call
Idle == [pc |-> "idle", input |-> <<>>, mapName |-> "", i |-> 0]

Script ==
    << [name |-> "rate-limit-requests", input |-> Requests1200],
       [name |-> "rate-limit-period", input |-> Period10s],
       [name |-> "rate-limit-status-code", input |-> Status429],
       [name |-> "rate-limit-size", input |-> Size200k],
       [name |-> "rate-limit-whitelist", input |-> WhitelistTwo] >>

\* NewReqRateLimit(r, m) for each processor, on empty lists and an empty store
Init ==
    /\ limit = [p \in Procs |-> 0]
    /\ track = [p \in Procs |-> 0]
    /\ heapLimit = <<>>
    /\ heapTrack = <<>>
    /\ rules = [p \in Procs |-> <<>>]
    /\ maps = <<>>
    /\ ret = [proc |-> "", name |-> "", input |-> <<>>, mapName |-> "", err |-> "nil"]
    /\ seen = <<>>
    /\ pos = [p \in Procs |-> 0]
    /\ calls = 0
    /\ run = [p \in Procs |-> Idle]
    /\ overlap = {}

Return(p, name, input, mapName, err) ==
    ret' = [proc |-> p, name |-> name, input |-> input, mapName |-> mapName, err |-> err]

(***************************************************************************)
(* ReqRateLimitAnn.Process, one operator per case of its switch.  Each     *)
(* states the whole effect of the call on the program's state and what it  *)
(* returns.                                                                *)
(***************************************************************************)
\* input == "": return nil
ProcessEmpty(p, name, input) ==
    /\ UNCHANGED prog
    /\ Return(p, name, input, "", "nil")

\* Variant: the tracking fragment is registered before the limiting one
ProcessRequests_TrackFirst(p, name, input) ==
    LET r == Computed[input].strconv
        l == Len(heapLimit) + 1
        t == Len(heapTrack) + 1
    IN  /\ heapLimit' = Append(heapLimit, NewLimit(r.value))
        /\ heapTrack' = Append(heapTrack, NewTrack)
        /\ limit' = [limit EXCEPT ![p] = l]
        /\ track' = [track EXCEPT ![p] = t]
        /\ rules' = [rules EXCEPT ![p] = RulesAdd(RulesAdd(@, "track", t), "limit", l)]
        /\ UNCHANGED maps
        /\ Return(p, name, input, "", IF r.ok THEN "nil" ELSE "parse")

\* Variant: the new limiting fragment takes the table name of the one it
\* replaces
ProcessRequests_KeepsTable(p, name, input) ==
    LET r == Computed[input].strconv
        l == Len(heapLimit) + 1
        t == Len(heapTrack) + 1
        tableName == IF limit[p] = 0 THEN "" ELSE heapLimit[limit[p]].TableName
    IN  /\ heapLimit' = Append(heapLimit, [NewLimit(r.value) EXCEPT !.TableName = tableName])
        /\ heapTrack' = Append(heapTrack, [NewTrack EXCEPT !.TableName = tableName])
        /\ limit' = [limit EXCEPT ![p] = l]
        /\ track' = [track EXCEPT ![p] = t]
        /\ rules' = [rules EXCEPT ![p] = RulesAdd(RulesAdd(@, "limit", l), "track", t)]
        /\ UNCHANGED maps
        /\ Return(p, name, input, "", IF r.ok THEN "nil" ELSE "parse")

\* Variant: only the limiting fragment is created
ProcessRequests_LimitOnly(p, name, input) ==
    LET r == Computed[input].strconv
        l == Len(heapLimit) + 1
    IN  /\ heapLimit' = Append(heapLimit, NewLimit(r.value))
        /\ limit' = [limit EXCEPT ![p] = l]
        /\ rules' = [rules EXCEPT ![p] = RulesAdd(@, "limit", l)]
        /\ UNCHANGED <<track, heapTrack, maps>>
        /\ Return(p, name, input, "", IF r.ok THEN "nil" ELSE "parse")

\* Variant: the new pair takes the place of the pair the list held
ProcessRequests_Replaces(p, name, input) ==
    LET r == Computed[input].strconv
        l == Len(heapLimit) + 1
        t == Len(heapTrack) + 1
    IN  /\ heapLimit' = Append(heapLimit, NewLimit(r.value))
        /\ heapTrack' = Append(heapTrack, NewTrack)
        /\ limit' = [limit EXCEPT ![p] = l]
        /\ track' = [track EXCEPT ![p] = t]
        /\ rules' = [rules EXCEPT ![p] = RulesAdd(RulesAdd(<<>>, "limit", l), "track", t)]
        /\ UNCHANGED maps
        /\ Return(p, name, input, "", IF r.ok THEN "nil" ELSE "parse")

\* case "rate-limit-requests": the fragments are created and registered
\* whatever strconv.ParseInt returned
ProcessRequests(p, name, input) ==
    LET r == Computed[input].strconv
        l == Len(heapLimit) + 1
        t == Len(heapTrack) + 1
    IN  /\ heapLimit' = Append(heapLimit, NewLimit(r.value))
        /\ heapTrack' = Append(heapTrack, NewTrack)
        /\ limit' = [limit EXCEPT ![p] = l]
        /\ track' = [track EXCEPT ![p] = t]
        /\ rules' = [rules EXCEPT ![p] = RulesAdd(RulesAdd(@, "limit", l), "track", t)]
        /\ UNCHANGED maps
        /\ Return(p, name, input, "", IF r.ok THEN "nil" ELSE "parse")

\* Variant: the table name is given to the limiting fragment alone
ProcessPeriod_LimitOnly(p, name, input) ==
    IF limit[p] = 0 \/ track[p] = 0
    THEN /\ UNCHANGED prog
         /\ Return(p, name, input, "", "nil")
    ELSE LET r == Computed[input].time
         IN  IF r.value = Nil
             THEN /\ UNCHANGED prog
                  /\ Return(p, name, input, "", "panic")
             ELSE LET tableName == "RateLimit-" \o ToString(Deref(r.value))
                  IN  /\ heapTrack' = [heapTrack EXCEPT ![track[p]].TablePeriod = r.value]
                      /\ heapLimit' = [heapLimit EXCEPT ![limit[p]].TableName = tableName]
                      /\ UNCHANGED <<limit, track, rules, maps>>
                      /\ Return(p, name, input, "", IF r.ok THEN "nil" ELSE "parse")

\* Variant: the table name is formatted from the period in seconds
ProcessPeriod_Seconds(p, name, input) ==
    IF limit[p] = 0 \/ track[p] = 0
    THEN /\ UNCHANGED prog
         /\ Return(p, name, input, "", "nil")
    ELSE LET r == Computed[input].time
         IN  IF r.value = Nil
             THEN /\ UNCHANGED prog
                  /\ Return(p, name, input, "", "panic")
             ELSE LET tableName == "RateLimit-" \o ToString(Deref(r.value) \div 1000)
                  IN  /\ heapTrack' = [heapTrack EXCEPT ![track[p]].TablePeriod = r.value,
                                                        ![track[p]].TableName = tableName]
                      /\ heapLimit' = [heapLimit EXCEPT ![limit[p]].TableName = tableName]
                      /\ UNCHANGED <<limit, track, rules, maps>>
                      /\ Return(p, name, input, "", IF r.ok THEN "nil" ELSE "parse")

\* case "rate-limit-period": *value is read before anything is assigned, and
\* value is nil when utils.ParseTime failed
ProcessPeriod(p, name, input) ==
    IF limit[p] = 0 \/ track[p] = 0
    THEN /\ UNCHANGED prog
         /\ Return(p, name, input, "", "nil")
    ELSE LET r == Computed[input].time
         IN  IF r.value = Nil
             THEN /\ UNCHANGED prog
                  /\ Return(p, name, input, "", "panic")
             ELSE LET tableName == "RateLimit-" \o ToString(Deref(r.value))
                  IN  /\ heapTrack' = [heapTrack EXCEPT ![track[p]].TablePeriod = r.value,
                                                        ![track[p]].TableName = tableName]
                      /\ heapLimit' = [heapLimit EXCEPT ![limit[p]].TableName = tableName]
                      /\ UNCHANGED <<limit, track, rules, maps>>
                      /\ Return(p, name, input, "", IF r.ok THEN "nil" ELSE "parse")

\* Variant: the parsed size is not stored
ProcessSize_Dropped(p, name, input) ==
    IF limit[p] = 0 \/ track[p] = 0
    THEN /\ UNCHANGED prog
         /\ Return(p, name, input, "", "nil")
    ELSE LET r == Computed[input].size
         IN  /\ UNCHANGED prog
             /\ Return(p, name, input, "", IF r.ok THEN "nil" ELSE "parse")

\* case "rate-limit-size"
ProcessSize(p, name, input) ==
    IF limit[p] = 0 \/ track[p] = 0
    THEN /\ UNCHANGED prog
         /\ Return(p, name, input, "", "nil")
    ELSE LET r == Computed[input].size
         IN  /\ heapTrack' = [heapTrack EXCEPT ![track[p]].TableSize = r.value]
             /\ UNCHANGED <<limit, track, heapLimit, rules, maps>>
             /\ Return(p, name, input, "", IF r.ok THEN "nil" ELSE "parse")

\* Variant: a missing LimitPolicy or TrackPolicy is reported as an error
ProcessStatusCode_Strict(p, name, input) ==
    IF limit[p] = 0 \/ track[p] = 0
    THEN /\ UNCHANGED prog
         /\ Return(p, name, input, "", "missing")
    ELSE LET r == Computed[input].int
         IN  /\ heapLimit' = [heapLimit EXCEPT ![limit[p]].DenyStatusCode = r.value]
             /\ UNCHANGED <<limit, track, heapTrack, rules, maps>>
             /\ Return(p, name, input, "", IF r.ok THEN "nil" ELSE "parse")

\* case "rate-limit-status-code"
ProcessStatusCode(p, name, input) ==
    IF limit[p] = 0 \/ track[p] = 0
    THEN /\ UNCHANGED prog
         /\ Return(p, name, input, "", "nil")
    ELSE LET r == Computed[input].int
         IN  /\ heapLimit' = [heapLimit EXCEPT ![limit[p]].DenyStatusCode = r.value]
             /\ UNCHANGED <<limit, track, heapTrack, rules, maps>>
             /\ Return(p, name, input, "", IF r.ok THEN "nil" ELSE "parse")


\* Variant: an address is appended before it is validated
RECURSIVE AppendAddresses_AppendFirst(_, _, _)
AppendAddresses_AppendFirst(addresses, mapName, m) ==
    IF addresses = <<>> THEN [maps |-> m, ok |-> TRUE]
    ELSE LET address == Head(addresses)
         IN  IF Incorrect[address]
             THEN [maps |-> MapAppend(m, mapName, address), ok |-> FALSE]
             ELSE AppendAddresses_AppendFirst(Tail(addresses), mapName,
                                              MapAppend(m, mapName, address))

\* Variant: an incorrect address is skipped and the loop goes on
RECURSIVE AppendAddresses_SkipIncorrect(_, _, _)
AppendAddresses_SkipIncorrect(addresses, mapName, m) ==
    IF addresses = <<>> THEN [maps |-> m, ok |-> TRUE]
    ELSE LET address == Head(addresses)
         IN  IF Incorrect[address]
             THEN [maps |-> AppendAddresses_SkipIncorrect(Tail(addresses), mapName, m).maps,
                   ok |-> FALSE]
             ELSE AppendAddresses_SkipIncorrect(Tail(addresses), mapName,
                                                MapAppend(m, mapName, address))

\* the loop over the trimmed fields of strings.Split(input, ","): the store
\* after it, and whether it ran to the end; it returns at the first address
\* that is neither an IP nor a CIDR block, keeping what it appended
RECURSIVE AppendAddresses(_, _, _)
AppendAddresses(addresses, mapName, m) ==
    IF addresses = <<>> THEN [maps |-> m, ok |-> TRUE]
    ELSE LET address == Head(addresses)
         IN  IF Incorrect[address]
             THEN [maps |-> m, ok |-> FALSE]
             ELSE AppendAddresses(Tail(addresses), mapName,
                                  MapAppend(m, mapName, address))

\* case "rate-limit-whitelist", the patterns/ reference
WhitelistPatterns(p, name, input) ==
    /\ heapLimit' = [heapLimit EXCEPT ![limit[p]].WhitelistMap = Computed[input].path]
    /\ UNCHANGED <<limit, track, heapTrack, rules, maps>>
    /\ Return(p, name, input, "", "nil")

\* Variant: the addresses are appended without asking whether the map exists
WhitelistInline_NoExists(p, name, input) ==
    LET mapName == Computed[input].mapName
        r == AppendAddresses(Computed[input].addresses, mapName, maps)
    IN  /\ maps' = r.maps
        /\ heapLimit' = IF r.ok
                        THEN [heapLimit EXCEPT ![limit[p]].WhitelistMap = GetPath(mapName)]
                        ELSE heapLimit
        /\ UNCHANGED <<limit, track, heapTrack, rules>>
        /\ Return(p, name, input, mapName, IF r.ok THEN "nil" ELSE "address")

\* case "rate-limit-whitelist", the inline address list
WhitelistInline(p, name, input) ==
    LET mapName == Computed[input].mapName
        r == IF ~MapExists(maps, mapName)
             THEN AppendAddresses(Computed[input].addresses, mapName, maps)
             ELSE [maps |-> maps, ok |-> TRUE]
    IN  /\ maps' = r.maps
        /\ heapLimit' = IF r.ok
                        THEN [heapLimit EXCEPT ![limit[p]].WhitelistMap = GetPath(mapName)]
                        ELSE heapLimit
        /\ UNCHANGED <<limit, track, heapTrack, rules>>
        /\ Return(p, name, input, mapName, IF r.ok THEN "nil" ELSE "address")

\* Variant: a patterns/ reference is handled as an address list
ProcessWhitelist_NoPatterns(p, name, input) ==
    IF limit[p] = 0
    THEN /\ UNCHANGED prog
         /\ Return(p, name, input, "", "nil")
    ELSE WhitelistInline(p, name, input)

\* case "rate-limit-whitelist": err is still nil when limit is nil
ProcessWhitelist(p, name, input) ==
    IF limit[p] = 0
    THEN /\ UNCHANGED prog
         /\ Return(p, name, input, "", "nil")
    ELSE IF Computed[input].patterns
    THEN WhitelistPatterns(p, name, input)
    ELSE WhitelistInline(p, name, input)

\* Variant: an unknown directive is dropped without an error
ProcessDefault_Dropped(p, name, input) ==
    /\ UNCHANGED prog
    /\ Return(p, name, input, "", "nil")

\* default
ProcessDefault(p, name, input) ==
    /\ UNCHANGED prog
    /\ Return(p, name, input, "", "unknown")

\* the rows of a set, none when the store does not hold it
Rows(m, name) == IF name \in DOMAIN m THEN m[name] ELSE <<>>

\* how far p has followed Script once it has been given name and input
Follow(p, name, input) ==
    [pos EXCEPT ![p] =
        IF /\ pos[p] \in 0..(Len(Script) - 1)
           /\ Script[pos[p] + 1] = [name |-> name, input |-> input]
        THEN pos[p] + 1
        ELSE Off]

\* The history the claims are stated with; no code reads it.
Record(p, name, input) ==
    /\ seen' = IF /\ name = "rate-limit-whitelist"
                  /\ input # <<>>
                  /\ limit[p] # 0
                  /\ ~Computed[input].patterns
                  /\ input \notin DOMAIN seen
               THEN (input :> [mapName |-> Computed[input].mapName,
                               rows |-> Rows(maps', Computed[input].mapName)]) @@ seen
               ELSE seen
    /\ pos' = Follow(p, name, input)
    /\ calls' = calls + 1

Process(p, name, annotations) ==
    LET input == GetValue(name, annotations)
    IN  /\ ret.err # "panic"
        /\ calls < MaxCalls
        /\ \/ input = <<>> /\ ProcessEmpty(p, name, input)
           \/ input # <<>> /\ name = "rate-limit-requests" /\ ProcessRequests(p, name, input)
           \/ input # <<>> /\ name = "rate-limit-period" /\ ProcessPeriod(p, name, input)
           \/ input # <<>> /\ name = "rate-limit-size" /\ ProcessSize(p, name, input)
           \/ input # <<>> /\ name = "rate-limit-status-code"
                /\ ProcessStatusCode(p, name, input)
           \/ input # <<>> /\ name = "rate-limit-whitelist" /\ ProcessWhitelist(p, name, input)
           \/ input # <<>> /\ name \notin KnownNames /\ ProcessDefault(p, name, input)
        /\ Record(p, name, input)
        /\ UNCHANGED <<run, overlap>>

\* One processor given every directive
Next == \E c \in Calls : Process("p1", c.name, c.annotations)

Spec == Init /\ [][Next]_vars

\* Two processors on the shared Map Store, given the directives that reach it
SharedCalls == {c \in Calls : c.name \in {"rate-limit-requests", "rate-limit-whitelist"}}

NextShared == \E p \in Procs, c \in SharedCalls : Process(p, c.name, c.annotations)

SpecShared == Init /\ [][NextShared]_vars

(***************************************************************************)
(* The whitelist case taken one access to the Map Store at a time, so that *)
(* the calls of two processors interleave between MapExists and the        *)
(* MapAppend calls of the loop.  What a processor does to its own          *)
(* fragments is no access to anything shared and belongs to the step of    *)
(* the access before it.                                                   *)
(***************************************************************************)
\* p starts the loop on the set mapName while another processor is in it
Overlapping(p, mapName) ==
    \E q \in Procs \ {p} : run[q].pc = "loop" /\ run[q].mapName = mapName

\* Variant: the loop is entered without asking whether the map exists
WhitelistBegin_NoExists(p, annotations) ==
    LET name == "rate-limit-whitelist"
        input == GetValue(name, annotations)
    IN  /\ run[p].pc = "idle"
        /\ calls < MaxCalls
        /\ IF input = <<>>
           THEN ProcessEmpty(p, name, input) /\ UNCHANGED <<run, overlap>>
           ELSE IF limit[p] = 0 \/ Computed[input].patterns
           THEN ProcessWhitelist(p, name, input) /\ UNCHANGED <<run, overlap>>
           ELSE LET mapName == Computed[input].mapName
                IN  /\ run' = [run EXCEPT ![p] = [pc |-> "loop", input |-> input,
                                                  mapName |-> mapName, i |-> 1]]
                    /\ overlap' = IF Overlapping(p, mapName)
                                  THEN overlap \cup {mapName}
                                  ELSE overlap
                    /\ UNCHANGED <<prog, ret>>
        /\ pos' = Follow(p, name, input)
        /\ calls' = calls + 1
        /\ UNCHANGED seen

\* Process on "rate-limit-whitelist" up to and including MapExists: the call
\* returns in this step unless the set is absent, and then enters the loop
WhitelistBegin(p, annotations) ==
    LET name == "rate-limit-whitelist"
        input == GetValue(name, annotations)
    IN  /\ run[p].pc = "idle"
        /\ calls < MaxCalls
        /\ IF input = <<>>
           THEN ProcessEmpty(p, name, input) /\ UNCHANGED <<run, overlap>>
           ELSE IF limit[p] = 0 \/ Computed[input].patterns
           THEN ProcessWhitelist(p, name, input) /\ UNCHANGED <<run, overlap>>
           ELSE IF MapExists(maps, Computed[input].mapName)
           THEN WhitelistInline(p, name, input) /\ UNCHANGED <<run, overlap>>
           ELSE LET mapName == Computed[input].mapName
                IN  /\ run' = [run EXCEPT ![p] = [pc |-> "loop", input |-> input,
                                                  mapName |-> mapName, i |-> 1]]
                    /\ overlap' = IF Overlapping(p, mapName)
                                  THEN overlap \cup {mapName}
                                  ELSE overlap
                    /\ UNCHANGED <<prog, ret>>
        /\ pos' = Follow(p, name, input)
        /\ calls' = calls + 1
        /\ UNCHANGED seen

\* one turn of the loop, for entry i of the text: the call returns the error
\* if the entry is no address; otherwise the entry is appended, and after the
\* last one the reference is set and the call returns nil
WhitelistAppend(p) ==
    LET c == run[p]
        name == "rate-limit-whitelist"
        addresses == Computed[c.input].addresses
        address == addresses[c.i]
    IN  /\ c.pc = "loop"
        /\ IF Incorrect[address]
           THEN /\ UNCHANGED prog
                /\ Return(p, name, c.input, c.mapName, "address")
                /\ run' = [run EXCEPT ![p] = Idle]
           ELSE /\ maps' = MapAppend(maps, c.mapName, address)
                /\ UNCHANGED <<limit, track, heapTrack, rules>>
                /\ IF c.i < Len(addresses)
                   THEN /\ run' = [run EXCEPT ![p].i = c.i + 1]
                        /\ UNCHANGED <<heapLimit, ret>>
                   ELSE /\ run' = [run EXCEPT ![p] = Idle]
                        /\ heapLimit' = [heapLimit EXCEPT
                                            ![limit[p]].WhitelistMap = GetPath(c.mapName)]
                        /\ Return(p, name, c.input, c.mapName, "nil")
        /\ UNCHANGED <<seen, pos, calls, overlap>>

\* The calls of the interleaved processors: requests=100, and the whitelist
\* directive with each of its values and with the empty one
ConcCalls ==
    {c \in SharedCalls :
        /\ Len(c.annotations) = 1
        /\ c.name = "rate-limit-requests" => c.annotations[1][c.name] = Requests100}

\* Two processors on the shared Map Store, their whitelist calls interleaved
NextConc ==
    \E p \in Procs :
        \/ \E c \in ConcCalls :
              /\ c.name = "rate-limit-requests"
              /\ run[p].pc = "idle"
              /\ Process(p, c.name, c.annotations)
        \/ \E c \in ConcCalls :
              /\ c.name = "rate-limit-whitelist"
              /\ WhitelistBegin(p, c.annotations)
        \/ WhitelistAppend(p)

SpecConc == Init /\ [][NextConc]_vars

(***************************************************************************)
(* pkg/haproxy/rules: the condition a ReqRateLimit renders to.             *)
(***************************************************************************)
\* Variant: the first expected condition of the table shows the deny status
ConditionTests_StatusShown ==
    { [rateLimit |-> [ReqsLimit |-> 100, TableName |-> "RateLimit-10000",
                      DenyStatusCode |-> 403, WhitelistMap |-> ""],
       expectedCondTest |-> "{ sc0_http_req_rate(RateLimit-10000) gt 100 } 403"] }

\* TestReqRateLimit_ConditionGeneration: the fragments of its table and the
\* condition it expects of each
ConditionTests ==
    { [rateLimit |-> [ReqsLimit |-> 100, TableName |-> "RateLimit-10000",
                      DenyStatusCode |-> 403, WhitelistMap |-> ""],
       expectedCondTest |-> "{ sc0_http_req_rate(RateLimit-10000) gt 100 }"],
      [rateLimit |-> [ReqsLimit |-> 100, TableName |-> "RateLimit-10000",
                      DenyStatusCode |-> 429,
                      WhitelistMap |-> "/etc/haproxy/maps/ratelimit-whitelist.map"],
       expectedCondTest |->
          "({ sc0_http_req_rate(RateLimit-10000) gt 100 }) !{ src -f /etc/haproxy/maps/ratelimit-whitelist.map }"],
      [rateLimit |-> [ReqsLimit |-> 1200, TableName |-> "RateLimit-5000",
                      DenyStatusCode |-> 429, WhitelistMap |-> "patterns/whitelist"],
       expectedCondTest |->
          "({ sc0_http_req_rate(RateLimit-5000) gt 1200 }) !{ src -f patterns/whitelist }"],
      [rateLimit |-> [ReqsLimit |-> 5000, TableName |-> "RateLimit-60000",
                      DenyStatusCode |-> 503,
                      WhitelistMap |-> "/etc/haproxy/maps/internal-ips.map"],
       expectedCondTest |->
          "({ sc0_http_req_rate(RateLimit-60000) gt 5000 }) !{ src -f /etc/haproxy/maps/internal-ips.map }"] }

Condition(l) ==
    LET base == "{ sc0_http_req_rate(" \o l.TableName \o ") gt "
                    \o ToString(l.ReqsLimit) \o " }"
    IN  IF l.WhitelistMap = "" THEN base
        ELSE "(" \o base \o ") !{ src -f " \o l.WhitelistMap \o " }"

(***************************************************************************)
(* Properties.  Every step of Next is one Process call, and ret' is that   *)
(* call: a property of a call is a property of the step that sets ret'.    *)
(***************************************************************************)
Whitelist == "rate-limit-whitelist"

\* the inline whitelist texts with an entry that is neither an IP nor a CIDR
Malformed ==
    {input \in Values(Whitelist) :
        /\ ~HasPrefix(input, PatternsPrefix)
        /\ \E i \in 1..Len(Split(input, ",")) :
              IncorrectAddress(TrimSpace(Split(input, ",")[i]))}

\* C1: an inline whitelist value with an entry that is neither an IP nor a
\* CIDR block, processed while a LimitPolicy exists, returns an error and
\* leaves whitelistRef as it was, whatever was processed before.
C1_MalformedWhitelistFails ==
    [][\A p \in Procs :
          (ret'.proc = p /\ ret'.name = Whitelist /\ ret'.input \in Malformed
              /\ limit[p] # 0)
          => /\ ret'.err # "nil"
             /\ limit'[p] = limit[p]
             /\ heapLimit'[limit[p]].WhitelistMap = heapLimit[limit[p]].WhitelistMap]_vars

\* C2: the whitelist directive with a non-empty value, processed when no
\* LimitPolicy exists, returns an error and sets no whitelist reference.
C2_WhitelistWithoutLimitFails ==
    [][\A p \in Procs :
          (ret'.proc = p /\ ret'.name = Whitelist /\ ret'.input # <<>>
              /\ limit[p] = 0)
          => /\ ret'.err # "nil"
             /\ UNCHANGED <<limit, heapLimit>>]_vars

\* a fragment as rate-limit-requests leaves it, but for its limit
Unset(l, t) ==
    /\ l.TableName = "" /\ l.DenyStatusCode = 0 /\ l.WhitelistMap = ""
    /\ t.TableName = "" /\ t.TablePeriod = Nil /\ t.TableSize = Nil

\* C3: period, size or status-code processed when no requests directive was
\* processed before is a no-op (no error; no policy created; Rule List and
\* Map Store unchanged), and a requests directive starts from policies whose
\* tableName, tablePeriod, tableSize and denyStatusCode are unset.
C3_BeforeRequestsNoOp ==
    [][\A p \in Procs :
          /\ (ret'.proc = p /\ ret'.input # <<>> /\ limit[p] = 0 /\ track[p] = 0
                /\ ret'.name \in {"rate-limit-period", "rate-limit-size",
                                  "rate-limit-status-code"})
             => (ret'.err = "nil" /\ UNCHANGED prog)
          /\ (ret'.proc = p /\ ret'.input # <<>> /\ ret'.name = "rate-limit-requests")
             => (/\ limit'[p] # 0 /\ track'[p] # 0
                 /\ Unset(heapLimit'[limit'[p]], heapTrack'[track'[p]]))]_vars

\* C3 witness: a malformed period was processed on a processor without
\* policies, and returned nil
C3_Witness ==
    /\ ret.name = "rate-limit-period" /\ ret.input = Period10x
    /\ limit[ret.proc] = 0 /\ track[ret.proc] = 0
    /\ ret.err = "nil"

\* C4: an inline whitelist text processed again, by the same or by another
\* processor on the same Map Store, derives the name it derived the first
\* time and appends nothing: the store is as it was before the call, and the
\* set holds what it held after the first call.
C4_SecondWhitelistAppendsNothing ==
    [][\A p \in Procs :
          (ret'.proc = p /\ ret'.name = Whitelist /\ limit[p] # 0
              /\ ret'.input \in DOMAIN seen)
          => /\ ret'.mapName = seen[ret'.input].mapName
             /\ maps' = maps
             /\ Rows(maps', ret'.mapName) = seen[ret'.input].rows]_vars

\* C4 witness: both processors processed the two-address text; the second
\* call was p2's, and the set holds the two addresses once
C4_Witness ==
    /\ ret.proc = "p2" /\ ret.name = Whitelist /\ ret.input = WhitelistTwo
    /\ ret.err = "nil"
    /\ WhitelistTwo \in DOMAIN seen
    /\ limit["p1"] # 0 /\ limit["p2"] # 0
    /\ heapLimit[limit["p1"]].WhitelistMap = GetPath(seen[WhitelistTwo].mapName)
    /\ heapLimit[limit["p2"]].WhitelistMap = GetPath(seen[WhitelistTwo].mapName)
    /\ Len(maps[seen[WhitelistTwo].mapName]) = 2

\* C5: a requests directive whose value is not a base-10 integer fails with
\* a parse error, creates no policy and leaves the Rule List unchanged.
C5_FailedRequestsCreatesNothing ==
    [][(ret'.name = "rate-limit-requests" /\ ret'.input # <<>>
            /\ ~StrconvParseInt(ret'.input).ok)
       => /\ ret'.err = "parse"
          /\ UNCHANGED <<limit, track, rules>>]_vars

\* C6 as stated: Process on a name that is not one of the five directives
\* fails with the unknown-directive error for every annotation map.
C6_UnknownAlwaysFails ==
    (ret.name # "" /\ ret.name \notin KnownNames) => ret.err = "unknown"

\* C6 amended: Process on a name that is not one of the five directives
\* fails with the unknown-directive error whenever the annotation maps give
\* the name a non-empty value; when they give it none, or the empty value,
\* Process returns nil.
C6_UnknownWithValueFails ==
    (ret.name # "" /\ ret.name \notin KnownNames)
        => ret.err = (IF ret.input # <<>> THEN "unknown" ELSE "nil")

C6_Witness ==
    ret.name = "rate-limit-burst" /\ ret.input = Burst5 /\ ret.err = "unknown"

\* C7: whenever both LimitPolicy and TrackPolicy exist, they have the same
\* tableName.
C7_SameTableName ==
    \A p \in Procs :
        (limit[p] # 0 /\ track[p] # 0)
            => heapLimit[limit[p]].TableName = heapTrack[track[p]].TableName

\* C7 witness: a period was processed, then failed ones were submitted
C7_Witness ==
    /\ limit["p1"] # 0 /\ track["p1"] # 0
    /\ heapLimit[limit["p1"]].TableName = "RateLimit-60000"
    /\ ret.name = "rate-limit-size" /\ ret.err = "parse"

\* the durations of the model that are a whole number of seconds
WholeSeconds ==
    {d \in Values("rate-limit-period") :
        ParseTime(d).ok /\ Deref(ParseTime(d).value) % 1000 = 0}

Seconds(d) == Deref(ParseTime(d).value) \div 1000

PeriodProcessed ==
    /\ ret.name = "rate-limit-period" /\ ret.input \in WholeSeconds
    /\ limit[ret.proc] # 0 /\ track[ret.proc] # 0

\* C8 as stated: period=d, d a whole number s of seconds, processed after
\* requests sets the tableName of both fragments to "RateLimit-" and s.
C8_TableNameInSeconds ==
    PeriodProcessed
        => /\ heapLimit[limit[ret.proc]].TableName
                = "RateLimit-" \o ToString(Seconds(ret.input))
           /\ heapTrack[track[ret.proc]].TableName
                = "RateLimit-" \o ToString(Seconds(ret.input))

\* C8 amended: period=d, d a whole number s of seconds, processed after
\* requests sets the tableName of both fragments to "RateLimit-" and
\* 1000 * s, the duration in milliseconds.
C8_TableNameInMilliseconds ==
    PeriodProcessed
        => /\ ret.err = "nil"
           /\ heapLimit[limit[ret.proc]].TableName
                = "RateLimit-" \o ToString(1000 * Seconds(ret.input))
           /\ heapTrack[track[ret.proc]].TableName
                = "RateLimit-" \o ToString(1000 * Seconds(ret.input))

C8_Witness ==
    /\ PeriodProcessed
    /\ ret.input = Period1m
    /\ heapLimit[limit[ret.proc]].TableName = "RateLimit-60000"

\* C9: requests=1200, period=10s, status-code=429, size=200k and
\* whitelist="10.0.0.0/8, 192.168.1.100", in that order on a fresh processor,
\* return no error at any step and end with requestLimit 1200, tableName
\* RateLimit-10000, denyStatusCode 429, a whitelistRef, a tableSize, and the
\* condition "({ sc0_http_req_rate(RateLimit-10000) gt 1200 }) !{ src -f
\* <whitelistRef> }".
C9_AllAnnotations ==
    \A p \in Procs :
        /\ (pos[p] >= 1 /\ ret.proc = p) => ret.err = "nil"
        /\ pos[p] = Len(Script)
           => LET l == heapLimit[limit[p]]
                  t == heapTrack[track[p]]
              IN  /\ l.ReqsLimit = 1200
                  /\ l.TableName = "RateLimit-10000"
                  /\ l.DenyStatusCode = 429
                  /\ l.WhitelistMap # ""
                  /\ t.TableSize # Nil
                  /\ Condition(l) =
                        "({ sc0_http_req_rate(RateLimit-10000) gt 1200 }) !{ src -f "
                            \o l.WhitelistMap \o " }"

C9_Witness == pos["p1"] = Len(Script) /\ ret.name = Whitelist

\* C10: a whitelist value beginning with "patterns/", processed while a
\* LimitPolicy exists, is stored verbatim as whitelistRef, and the Map Store
\* is unchanged by the call.
C10_PatternsVerbatim ==
    [][\A p \in Procs :
          (ret'.proc = p /\ ret'.name = Whitelist /\ limit[p] # 0
              /\ HasPrefix(ret'.input, PatternsPrefix))
          => /\ ret'.err = "nil"
             /\ heapLimit'[limit[p]].WhitelistMap = Str(ret'.input)
             /\ maps' = maps]_vars

\* C10 witness: the reference was stored over an inline one, the store kept
C10_Witness ==
    /\ ret.name = Whitelist /\ ret.input = WhitelistPattern
    /\ limit[ret.proc] # 0
    /\ heapLimit[limit[ret.proc]].WhitelistMap = "patterns/whitelist"
    /\ DOMAIN maps # {}

Requests == "rate-limit-requests"

\* C12: a requests directive whose value is the integer n returns nil,
\* creates a LimitPolicy with requestLimit n and a TrackPolicy with trackKey
\* "src", both new (no fragment allocated before is changed), and appends
\* exactly the two to the Rule List, the LimitPolicy immediately before the
\* TrackPolicy, after the fragments the list already held.
C12_RequestsAppendsPair ==
    [][\A p \in Procs :
          (ret'.proc = p /\ ret'.name = Requests /\ ret'.input # <<>>
              /\ StrconvParseInt(ret'.input).ok)
          => /\ ret'.err = "nil"
             /\ limit'[p] \notin DOMAIN heapLimit
             /\ track'[p] \notin DOMAIN heapTrack
             /\ heapLimit' = Append(heapLimit, heapLimit'[limit'[p]])
             /\ heapTrack' = Append(heapTrack, heapTrack'[track'[p]])
             /\ heapLimit'[limit'[p]].ReqsLimit = StrconvParseInt(ret'.input).value
             /\ heapTrack'[track'[p]].TrackKey = "src"
             /\ rules'[p] = rules[p] \o << [kind |-> "limit", ref |-> limit'[p]],
                                          [kind |-> "track", ref |-> track'[p]] >>
             /\ \A q \in Procs \ {p} : rules'[q] = rules[q]]_vars

\* C12 witness: requests=100 succeeded on a list that already held the pair
\* of requests=1200
C12_Witness ==
    /\ ret.name = Requests /\ ret.input = Requests100 /\ ret.err = "nil"
    /\ Len(rules[ret.proc]) = 4
    /\ heapLimit[rules[ret.proc][1].ref].ReqsLimit = 1200
    /\ rules[ret.proc][3] = [kind |-> "limit", ref |-> limit[ret.proc]]
    /\ rules[ret.proc][4] = [kind |-> "track", ref |-> track[ret.proc]]
    /\ heapLimit[limit[ret.proc]].ReqsLimit = 100

\* C13: every row of every set of the Map Store is, once trimmed, an IP
\* address or a valid CIDR block.
C13_OnlyAddressesInSets ==
    \A n \in DOMAIN maps :
        \A i \in 1..Len(maps[n]) : ~IncorrectAddress(TrimSpace(maps[n][i]))

\* C13 witness: the store holds the two sets filled by the two-address and
\* the mixed text, and the call with the bad CIDR block has just failed
C13_Witness ==
    /\ ret.name = Whitelist /\ ret.input = WhitelistBadCidr /\ ret.err = "address"
    /\ Len(Rows(maps, WhitelistMapName(WhitelistTwo))) = 2
    /\ Len(Rows(maps, WhitelistMapName(WhitelistMixed))) = 2
    /\ Rows(maps, ret.mapName) = <<>>

\* the trimmed entries of an inline whitelist text
Addresses(input) ==
    [i \in 1..Len(Split(input, ",")) |-> TrimSpace(Split(input, ",")[i])]

\* the position of the first entry that is neither an IP nor a CIDR block
FirstIncorrect(input) ==
    CHOOSE i \in 1..Len(Addresses(input)) :
        /\ IncorrectAddress(Addresses(input)[i])
        /\ \A j \in 1..(i - 1) : ~IncorrectAddress(Addresses(input)[j])

\* C14: an inline whitelist text whose set does not exist and whose first
\* incorrect entry is at position i, processed while a LimitPolicy exists,
\* fails with the incorrect-address error; after the call the set holds
\* exactly the trimmed entries before i, in the order of the text, and every
\* other set is as it was.
C14_FailedListKeepsPrefix ==
    [][\A p \in Procs :
          (ret'.proc = p /\ ret'.name = Whitelist /\ limit[p] # 0
              /\ ret'.input \in Malformed
              /\ Rows(maps, WhitelistMapName(ret'.input)) = <<>>)
          => /\ ret'.err = "address"
             /\ Rows(maps', WhitelistMapName(ret'.input))
                  = SubSeq(Addresses(ret'.input), 1, FirstIncorrect(ret'.input) - 1)
             /\ \A n \in DOMAIN maps : n \in DOMAIN maps' /\ maps'[n] = maps[n]]_vars

\* C14 witness: the mixed text failed at its third entry; the set holds the
\* two addresses before it and not the address after it
C14_Witness ==
    /\ ret.name = Whitelist /\ ret.input = WhitelistMixed /\ ret.err = "address"
    /\ FirstIncorrect(WhitelistMixed) = 3
    /\ Len(Addresses(WhitelistMixed)) = 4
    /\ Rows(maps, ret.mapName)
          = << <<"1", ".", "1", ".", "1", ".", "1">>, <<"2", ".", "2", ".", "2", ".", "2">> >>

\* the condition of a fragment without a whitelist, in the words of the claim
BaseCondition(l) ==
    "{ sc0_http_req_rate(" \o l.TableName \o ") gt " \o ToString(l.ReqsLimit) \o " }"

\* the deny statuses of the table of the test, and the unset one
DenyStatusCodes == {t.rateLimit.DenyStatusCode : t \in ConditionTests} \cup {0}

PeriodSucceeded(p) ==
    ret'.proc = p /\ ret'.name = "rate-limit-period" /\ ret'.input # <<>>
        /\ ret'.err = "nil"

\* C16: the tableName of the current LimitPolicy is empty after a requests
\* directive and stays empty over every step that is not a period directive
\* returning no error, so it is empty as long as no period has succeeded
\* since the last requests; requests="100" processed alone renders to
\* "{ sc0_http_req_rate() gt 100 }".
C16_TableNameEmptyUntilPeriod ==
    [][\A p \in Procs :
          /\ (ret'.proc = p /\ ret'.name = Requests /\ ret'.input # <<>>)
             => (limit'[p] # 0 /\ heapLimit'[limit'[p]].TableName = "")
          /\ (limit[p] # 0 /\ heapLimit[limit[p]].TableName = "" /\ ~PeriodSucceeded(p))
             => (limit'[p] # 0 /\ heapLimit'[limit'[p]].TableName = "")
          /\ (calls = 0 /\ ret'.proc = p /\ ret'.name = Requests
                /\ ret'.input = Requests100)
             => Condition(heapLimit'[limit'[p]]) = "{ sc0_http_req_rate() gt 100 }"]_vars

\* C16 witness: a period succeeded, requests=100 was processed after it and
\* a status code after that; the current LimitPolicy has no table name
C16_Witness ==
    /\ Len(heapLimit) = 2 /\ limit["p1"] = 2
    /\ heapLimit[1].TableName = "RateLimit-10000"
    /\ heapLimit[2].TableName = ""
    /\ heapLimit[2].DenyStatusCode = 429
    /\ Condition(heapLimit[2]) = "{ sc0_http_req_rate() gt 100 }"

\* C17: a period directive whose duration utils.ParseTime rejects, processed
\* while both policies exist, returns the parse error as an error value
\* (Process does not panic) and leaves tableName and tablePeriod of both
\* policies as they were.
C17_MalformedPeriodReturnsError ==
    [][\A p \in Procs :
          (ret'.proc = p /\ ret'.name = "rate-limit-period" /\ ret'.input # <<>>
              /\ limit[p] # 0 /\ track[p] # 0
              /\ ~ParseTime(ret'.input).ok)
          => /\ ret'.err = "parse"
             /\ limit'[p] = limit[p] /\ track'[p] = track[p]
             /\ heapLimit'[limit[p]].TableName = heapLimit[limit[p]].TableName
             /\ heapTrack'[track[p]].TableName = heapTrack[track[p]].TableName
             /\ heapTrack'[track[p]].TablePeriod = heapTrack[track[p]].TablePeriod]_vars

\* C18: a status-code or size directive with a malformed value, processed
\* while both policies exist, returns a parse error and leaves
\* LimitPolicy.denyStatusCode, respectively TrackPolicy.tableSize, with the
\* value it had before the call.
C18_FailedParseKeepsField ==
    [][\A p \in Procs :
          /\ (ret'.proc = p /\ ret'.name = "rate-limit-status-code" /\ ret'.input # <<>>
                /\ limit[p] # 0 /\ track[p] # 0
                /\ ~ParseInt(ret'.input).ok)
             => /\ ret'.err = "parse"
                /\ limit'[p] = limit[p]
                /\ heapLimit'[limit[p]].DenyStatusCode = heapLimit[limit[p]].DenyStatusCode
          /\ (ret'.proc = p /\ ret'.name = "rate-limit-size" /\ ret'.input # <<>>
                /\ limit[p] # 0 /\ track[p] # 0
                /\ ~ParseSize(ret'.input).ok)
             => /\ ret'.err = "parse"
                /\ track'[p] = track[p]
                /\ heapTrack'[track[p]].TableSize = heapTrack[track[p]].TableSize]_vars

\* C19: whenever a processor has a LimitPolicy, its requestLimit is greater
\* than zero.
C19_RequestLimitPositive ==
    \A p \in Procs : limit[p] # 0 => heapLimit[limit[p]].ReqsLimit > 0

\* C20: in every state each processor has either no LimitPolicy and no
\* TrackPolicy or both of them, so "LimitPolicy exists" and "both exist" are
\* the same condition.
C20_BothOrNeither ==
    \A p \in Procs :
        /\ (limit[p] = 0) <=> (track[p] = 0)
        /\ (limit[p] # 0) <=> (limit[p] # 0 /\ track[p] # 0)

\* C20 witness: one processor has replaced its pair, by a requests directive
\* that failed to parse, and the other has neither policy
C20_Witness ==
    /\ ret.proc = "p1" /\ ret.name = Requests /\ ret.err = "parse"
    /\ limit["p1"] = 2 /\ track["p1"] = 2
    /\ limit["p2"] = 0 /\ track["p2"] = 0

\* the inline whitelist texts of the model
InlineTexts == {input \in Values(Whitelist) : ~HasPrefix(input, PatternsPrefix)}

\* what one call on an absent set leaves in it: the entries of the text
\* before the first incorrect one
Once ==
    [input \in InlineTexts |->
        IF input \in Malformed
        THEN SubSeq(Addresses(input), 1, FirstIncorrect(input) - 1)
        ELSE Addresses(input)]

\* r holds the first Len(r) rows of s
IsPrefix(r, s) == Len(r) <= Len(s) /\ r = SubSeq(s, 1, Len(r))

\* the number of rows of r that are the address a
Count(r, a) == Cardinality({i \in 1..Len(r) : r[i] = a})

\* C11: between the existence check and the appends of an inline whitelist
\* call another processor may run its own check; a set holds more than one
\* call's entries only when a processor started to fill it while another
\* one was filling it.  Otherwise (the calls on the set one after the other)
\* the set holds at most the entries of one call, in order; with overlapping
\* calls it holds at most twice as many.
C11_TwiceOnlyWhenOverlapped ==
    \A input \in InlineTexts :
        LET mapName == WhitelistMapName(input)
        IN  /\ mapName \notin overlap => IsPrefix(Rows(maps, mapName), Once[input])
            /\ mapName \in overlap
                  => \A i \in 1..Len(Once[input]) :
                        Count(Rows(maps, mapName), Once[input][i])
                            <= 2 * Count(Once[input], Once[input][i])

\* C11 witness: both processors found the set of the two-address text absent
\* and both ran the loop to its end; the set holds each address twice and
\* both LimitPolicies refer to it
C11_Witness ==
    /\ run["p1"].pc = "idle" /\ run["p2"].pc = "idle"
    /\ WhitelistMapName(WhitelistTwo) \in overlap
    /\ Len(Rows(maps, WhitelistMapName(WhitelistTwo))) = 4
    /\ \A i \in 1..2 :
          Count(Rows(maps, WhitelistMapName(WhitelistTwo)), Addresses(WhitelistTwo)[i]) = 2
    /\ limit["p1"] # 0 /\ limit["p2"] # 0
    /\ heapLimit[limit["p1"]].WhitelistMap = GetPath(WhitelistMapName(WhitelistTwo))
    /\ heapLimit[limit["p2"]].WhitelistMap = GetPath(WhitelistMapName(WhitelistTwo))

\* the step is a requests directive of processor p with a non-empty value
RequestsCall(p) == ret'.proc = p /\ ret'.name = Requests /\ ret'.input # <<>>

\* C21: every requests directive with a non-empty value makes new, unset
\* policies the current ones and appends their pair to the Rule List, which
\* keeps the pairs it held; every other step leaves the list and the current
\* pointers as they are and changes no fragment but the current pair.  So the
\* list never shrinks, it grows by two with each such call and by nothing
\* otherwise (its length is twice the number of such calls), it is made of
\* limit/track pairs, and the current policies are its last pair.
C21_RequestsAppendsFreshPair ==
    [][\A p \in Procs :
          /\ RequestsCall(p)
             => /\ limit'[p] \notin DOMAIN heapLimit
                /\ track'[p] \notin DOMAIN heapTrack
                /\ Unset(heapLimit'[limit'[p]], heapTrack'[track'[p]])
                /\ Len(rules'[p]) = Len(rules[p]) + 2
                /\ SubSeq(rules'[p], 1, Len(rules[p])) = rules[p]
                /\ \A i \in DOMAIN heapLimit : heapLimit'[i] = heapLimit[i]
                /\ \A i \in DOMAIN heapTrack : heapTrack'[i] = heapTrack[i]
          /\ ~RequestsCall(p)
             => /\ rules'[p] = rules[p]
                /\ limit'[p] = limit[p] /\ track'[p] = track[p]
                /\ ret'.proc = p
                     => /\ DOMAIN heapLimit' = DOMAIN heapLimit
                        /\ DOMAIN heapTrack' = DOMAIN heapTrack
                        /\ \A i \in DOMAIN heapLimit \ {limit[p]} :
                              heapLimit'[i] = heapLimit[i]
                        /\ \A i \in DOMAIN heapTrack \ {track[p]} :
                              heapTrack'[i] = heapTrack[i]
          /\ \A k \in 1..Len(rules'[p]) :
                rules'[p][k].kind = (IF k % 2 = 1 THEN "limit" ELSE "track")
          /\ limit'[p] # 0
             => /\ rules'[p][Len(rules'[p]) - 1] = [kind |-> "limit", ref |-> limit'[p]]
                /\ rules'[p][Len(rules'[p])] = [kind |-> "track", ref |-> track'[p]]]_vars

\* C21 witness: requests was processed three times, once with a value that is
\* no integer; the list holds three pairs, the first keeps the table name a
\* period gave it, and a status code went to the third alone
C21_Witness ==
    /\ Len(rules["p1"]) = 6 /\ limit["p1"] = 3 /\ track["p1"] = 3
    /\ heapLimit[1].TableName = "RateLimit-10000"
    /\ heapLimit[2].ReqsLimit = 0
    /\ heapLimit[1].DenyStatusCode = 0 /\ heapLimit[2].DenyStatusCode = 0
    /\ heapLimit[3].DenyStatusCode = 429 /\ heapLimit[3].TableName = ""
    /\ ret.name = "rate-limit-status-code"

====
